---- MODULE Spec2Model ----
(***************************************************************************)
(* Model of telstrasmsqt.py: the App controller of the Telstra SMS client. *)
(* State is the App object's fields plus the keys.json file; one action    *)
(* per event handler (load_keys at construction, choose_bearer,            *)
(* send_message, get_message).  get_message's drain loop is modelled one   *)
(* iteration per step, since it need not terminate.                        *)
(*                                                                         *)
(* Strings the code inspects (the dialog text, keys, secrets, numbers) are *)
(* sequences of one-character strings, so that split(), len(), replace()   *)
(* and int() are computed as Python computes them.                         *)
(***************************************************************************)
EXTENDS Integers, Sequences, FiniteSets, TLC

VARIABLES
    pc,                 \* "boot" (inside __init__), "idle" (event loop), "polling" (inside get_message's loop), "dead"
    file,               \* keys.json on disk: "missing", "malformed", "unreadable" or a sequence of entries
    keys,               \* self.keys
    bearer,             \* self.bearer
    phone_number,       \* self.phone_number
    received_messages,  \* self.received_messages
    status,             \* text last given to set_status
    dialogs,            \* titles of the message boxes shown by the current/latest handler
    fault,              \* exception that left the current/latest handler, or "none"
    calls,              \* network calls issued by the current/latest handler, in order
    message,            \* the Message the current/latest handler constructed last, if any
    cmd,                \* the handler that ran last and its input
    messages_before     \* self.received_messages when the current/latest handler began

vars == <<pc, file, keys, bearer, phone_number, received_messages, status,
          dialogs, fault, calls, message, cmd, messages_before>>

-----------------------------------------------------------------------------
(* Bounds of the model *)

MaxKeys == 2      \* self.keys is not grown beyond this length
MaxMsgs == 2      \* self.received_messages is not grown beyond this length
MaxPolls == 2     \* poll_message calls of one get_message command that do not return the empty marker

-----------------------------------------------------------------------------
(* Python values *)

None == <<"None">>          \* distinct from every string of characters

Rep(c, n) == [i \in 1..n |-> c]

KEY_LEN == 32
SECRET_LEN == 16
HTTP_OK == 200
HTTP_CREATED == 201

RECURSIVE splitAcc(_, _, _)
splitAcc(s, cur, acc) ==
    IF s = <<>>
    THEN IF cur = <<>> THEN acc ELSE Append(acc, cur)
    ELSE IF Head(s) = " "
         THEN splitAcc(Tail(s), <<>>, IF cur = <<>> THEN acc ELSE Append(acc, cur))
         ELSE splitAcc(Tail(s), Append(cur, Head(s)), acc)

\* str.split() without arguments: the maximal runs of non-blank characters
split(s) == splitAcc(s, <<>>, <<>>)

\* str.replace('.', '')
replace_dot(s) == SelectSeq(s, LAMBDA c : c # ".")

Digits == <<"0", "1", "2", "3", "4", "5", "6", "7", "8", "9">>

IsDigit(c) == \E d \in 1..10 : Digits[d] = c

DigitVal(c) == (CHOOSE d \in 1..10 : Digits[d] = c) - 1

RECURSIVE digitsVal(_, _)
digitsVal(s, acc) ==
    IF s = <<>> THEN acc ELSE digitsVal(Tail(s), 10 * acc + DigitVal(Head(s)))

\* int(s) for a string without blanks: an optional sign and decimal digits,
\* ValueError otherwise
int(s) ==
    LET signed == s # <<>> /\ Head(s) \in {"+", "-"}
        body == IF signed THEN Tail(s) ELSE s
    IN  IF body = <<>> \/ \E i \in 1..Len(body) : ~IsDigit(body[i])
        THEN [ok |-> FALSE, val |-> 0]
        ELSE [ok |-> TRUE,
              val |-> IF signed /\ Head(s) = "-" THEN 0 - digitsVal(body, 0)
                      ELSE digitsVal(body, 0)]

RECURSIVE str(_)
\* str(i) for i >= 0
str(i) == IF i < 10 THEN <<Digits[i + 1]>> ELSE str(i \div 10) \o <<Digits[(i % 10) + 1]>>

-----------------------------------------------------------------------------
(* Values the environment supplies: the user's input, keys.json, the provider *)

K1 == Rep("a", KEY_LEN)
K2 == Rep("b", KEY_LEN)
KShort == Rep("c", KEY_LEN - 1)
S1 == Rep("s", SECRET_LEN)
S2 == Rep("t", SECRET_LEN)
SShort == Rep("u", SECRET_LEN - 1)

N1 == <<"+", "1">>
N2 == <<"+", "2">>
N9 == <<"+", "9">>

Tokens == {<<"t", "o", "k">>}

\* A dict of keys.json
Entry(key, secret) == [key |-> key, secret |-> secret]

EntryN(key, secret, number) == [key |-> key, secret |-> secret, number |-> number]

\* keys.json as the program may find it at start-up
Files ==
    { [kind |-> "missing"], [kind |-> "malformed"], [kind |-> "unreadable"],
      [kind |-> "json", content |-> <<EntryN(KShort, S2, N2)>>],
      [kind |-> "json", content |-> <<[key |-> K2]>>] }

UNKNOWN_NUMBER ==
    <<"[", "u", "n", "k", "n", "o", "w", "n", " ", "n", "u", "m", "b", "e", "r", "]">>

\* One line of the QInputDialog list (lines 178-180); i counts from 1
Item(i, k) ==
    str(i) \o <<".", " ">>
      \o (IF "number" \in DOMAIN k /\ k.number # <<>> THEN k.number ELSE UNKNOWN_NUMBER)
      \o <<" ">> \o k.key

Items(ks) ==
    { Item(i, ks[i]) : i \in { j \in 1..Len(ks) : {"key", "secret"} \subseteq DOMAIN ks[j] } }

Pair(key, secret) == key \o <<" ">> \o secret

\* Text typed into the (editable) dialog instead of picking a line
Typed ==
    { <<>>,
      Pair(K1, S1), Pair(KShort, S1), Pair(K1, SShort),
      <<"0">>, <<"1", ".">>, <<"7">>, <<" ">>, <<"k", " ", "e", " ", "y">> }

\* What QInputDialog.getItem returns: any text with OK, and Cancel
Answers(ks) ==
    { <<chosen, TRUE>> : chosen \in Items(ks) \cup Typed } \cup { <<Pair(K1, S1), FALSE>> }

\* Outcomes of a call into the api module
Timeout == [kind |-> "Timeout"]
ConnectionError == [kind |-> "ConnectionError"]
OtherException == [kind |-> "Exception"]

Response(code, json) == [kind |-> "Response", status_code |-> code, json |-> json]

Failures == {Timeout, ConnectionError, OtherException}

ErrorBody == [error |-> "error"]

get_bearer_outcomes ==
    Failures \cup { Response(HTTP_OK, [access_token |-> t]) : t \in Tokens }
             \cup { Response(401, ErrorBody) }

get_number_outcomes ==
    Failures \cup { Response(HTTP_OK, [destinationAddress |-> N1]) }
             \cup { Response(404, ErrorBody) }

new_number_outcomes ==
    Failures \cup { Response(HTTP_CREATED, [destinationAddress |-> N1]) }
             \cup { Response(500, ErrorBody) }

send_message_outcomes ==
    Failures \cup { Response(HTTP_CREATED, [messages |-> "queued"]), Response(400, ErrorBody) }

Inbound(sender, text, id, ts) ==
    [status |-> "RECEIVED", senderAddress |-> sender, message |-> text,
     messageId |-> id, sentTimestamp |-> ts]

TS1 == <<"2", "0", "2", "0", "-", "0", "1", "-", "0", "2", "T", "0", "3", ":", "0", "4", ":", "0", "5">>

InboundBodies ==
    { Inbound(N9, <<"h", "i">>, <<"m", "1">>, TS1),
      Inbound(N1, <<"y", "o">>, <<"m", "2">>, TS1) }

EmptyBody == [status |-> "EMPTY"]

get_message_outcomes ==
    Failures \cup { Response(HTTP_OK, b) : b \in InboundBodies }
             \cup { Response(HTTP_OK, EmptyBody), Response(500, ErrorBody) }

\* Text of the destination and message fields when Send is pressed
DestTexts == {<<>>, <<" ">>, N1}
MsgTexts == {<<>>, <<"h", "i">>}

-----------------------------------------------------------------------------
(* Library behaviour the handlers rest on *)

\* bool(response): requests.Response.__bool__ is Response.ok
ok(response) == ~(response.status_code >= 400 /\ response.status_code < 600)

\* self.keys[i] with Python's indexing: position in 1..Len, 0 for IndexError
PyIndex(seq, i) ==
    IF i >= 0 /\ i < Len(seq) THEN i + 1
    ELSE IF i < 0 /\ i >= 0 - Len(seq) THEN Len(seq) + i + 1
    ELSE 0

\* datetime.fromisoformat on "YYYY-MM-DDTHH:MM:SS"
fromisoformat(s) ==
    LET num(a, b) == digitsVal(SubSeq(s, a, b), 0)
    IN  <<num(1, 4), num(6, 7), num(9, 10), num(12, 13), num(15, 16), num(18, 19)>>

\* Message(msg_type, sender, destination, text, msg_id=None, timestamp=None)
Message(msg_type, sender, destination, text, msg_id, timestamp) ==
    [msg_type |-> msg_type, sender |-> sender, destination |-> destination,
     text |-> text, msg_id |-> msg_id, timestamp |-> timestamp]

NoMessage == [msg_type |-> "NONE"]

-----------------------------------------------------------------------------
(* Helpers of App *)

Dialog(title, icon) == [title |-> title, icon |-> icon]

Status(text) == [text |-> text]

NoBody == [nothing |-> TRUE]

\* A network call as the log keeps it: the operation, its arguments besides the
\* bearer, how it ended and the HTTP status (0 when there was no response)
Call(op, args, o) ==
    [op |-> op, args |-> args, kind |-> o.kind,
     status_code |-> IF o.kind = "Response" THEN o.status_code ELSE 0,
     body |-> IF o.kind = "Response" THEN o.json ELSE NoBody]

\* show_message (lines 130-135): QMessageBox.setText takes a str and raises
\* TypeError for anything else, before the box is shown
show_message(title, message_is_str, icon) ==
    IF message_is_str
    THEN [shown |-> <<Dialog(title, icon)>>, raised |-> "none"]
    ELSE [shown |-> <<>>, raised |-> "TypeError"]

\* api_request (lines 137-157) for a call f whose outcome is o.
\* returned = FALSE stands for the result None.
api_request(f, o) ==
    LET m == CASE o.kind = "Timeout" ->
                    show_message("Request timed out", TRUE, "Critical")
               [] o.kind = "ConnectionError" ->
                    show_message("Network problem", TRUE, "Critical")
               [] o.kind = "Exception" ->
                    show_message("Error calling " \o f \o ", report bug", FALSE, "Critical")
               [] OTHER -> [shown |-> <<>>, raised |-> "none"]
    IN  [returned |-> o.kind = "Response", shown |-> m.shown, raised |-> m.raised]

\* check_response (lines 159-170): the verdict, and the status text when it sets one
check_response(returned, o, success_code, caller, old_status) ==
    IF ~returned THEN [ok |-> FALSE, status |-> old_status]
    ELSE IF o.status_code = success_code THEN [ok |-> TRUE, status |-> old_status]
    ELSE [ok |-> FALSE,
          status |-> [text |-> "Request method failed with code, check logs",
                      caller |-> caller, code |-> o.status_code]]

\* load_keys without the JSONDecodeError handler of lines 66-71
load_keys_unhandled(f) ==
    CASE f.kind = "json" ->
            [keys |-> f.content, shown |-> <<>>, raised |-> "none"]
      [] f.kind = "missing" ->
            [keys |-> <<>>, raised |-> "none",
             shown |-> show_message("No existing keys.json file found", TRUE, "Warning").shown]
      [] f.kind = "malformed" ->
            [keys |-> <<>>, shown |-> <<>>, raised |-> "JSONDecodeError"]
      [] OTHER ->
            [keys |-> <<>>, shown |-> <<>>, raised |-> "PermissionError"]

\* load_keys (lines 56-71)
load_keys(f) ==
    CASE f.kind = "json" ->
            [keys |-> f.content, shown |-> <<>>, raised |-> "none"]
      [] f.kind = "missing" ->
            [keys |-> <<>>, raised |-> "none",
             shown |-> show_message("No existing keys.json file found", TRUE, "Warning").shown]
      [] f.kind = "malformed" ->
            [keys |-> <<>>, raised |-> "none",
             shown |-> show_message("Error parsing keys.json", TRUE, "Critical").shown]
      [] OTHER ->
            [keys |-> <<>>, shown |-> <<>>, raised |-> "PermissionError"]

\* save_keys (lines 73-80): the exception object is handed to show_message
save_keys(ks, f, io_ok) ==
    IF io_ok
    THEN [file |-> [kind |-> "json", content |-> ks], shown |-> <<>>, raised |-> "none"]
    ELSE LET m == show_message("Could not write to keys.json file", FALSE, "Critical")
         IN  [file |-> f, shown |-> m.shown, raised |-> m.raised]

-----------------------------------------------------------------------------
(* State machine *)

Init ==
    /\ pc = "boot"
    /\ file \in Files
    /\ keys = <<>>
    /\ bearer = None
    /\ phone_number = None
    /\ received_messages = <<>>
    /\ status = Status("")
    /\ dialogs = <<>>
    /\ fault = "none"
    /\ calls = <<>>
    /\ message = NoMessage
    /\ cmd = "__init__"
    /\ messages_before = <<>>

\* An exception that leaves a slot: PyQt5 (from 5.5 on, which every Python
\* with datetime.fromisoformat has) aborts the process.
AfterSlot(exc) == IF exc = "none" THEN "idle" ELSE "dead"

\* __init__ from line 48 on: load_keys, then init_ui.  An exception here
\* leaves the constructor and ends the script before the event loop starts.
Construct ==
    /\ pc = "boot"
    /\ LET l == load_keys(file)
       IN  /\ keys' = l.keys
           /\ dialogs' = l.shown
           /\ fault' = l.raised
           /\ pc' = IF l.raised = "none" THEN "idle" ELSE "dead"
           /\ status' = IF l.raised = "none" THEN Status("Ready") ELSE status
    /\ UNCHANGED <<file, bearer, phone_number, received_messages, calls, message, cmd, messages_before>>

\* choose_bearer, lines 184-196: what the dialog's answer selects.
\* exit is "return" (the handler returns), "raise" (exc leaves it) or "go"
\* (key, secret and key_index are set and line 198 is reached).
select(chosen, ok_pressed) ==
    LET parts == split(chosen)
        stop(e, d, x) == [exit |-> e, shown |-> d, exc |-> x,
                          key |-> <<>>, secret |-> <<>>, key_index |-> -1]
    IN  IF ~(chosen # <<>> /\ ok_pressed) THEN stop("return", <<>>, "none")
        ELSE IF Len(parts) = 2
        THEN IF Len(parts[1]) # KEY_LEN \/ Len(parts[2]) # SECRET_LEN
             THEN stop("return",
                       show_message("Invalid key", TRUE, "Critical").shown, "none")
             ELSE [exit |-> "go", shown |-> <<>>, exc |-> "none",
                   key |-> parts[1], secret |-> parts[2], key_index |-> -1]
        ELSE IF parts = <<>> THEN stop("raise", <<>>, "IndexError")
        ELSE LET n == int(replace_dot(parts[1]))
                 key_index == n.val - 1
                 at == PyIndex(keys, key_index)
             IN  IF ~n.ok THEN stop("raise", <<>>, "ValueError")
                 ELSE IF at = 0 THEN stop("raise", <<>>, "IndexError")
                 ELSE IF ~({"key", "secret"} \subseteq DOMAIN keys[at])
                 THEN stop("raise", <<>>, "KeyError")
                 ELSE [exit |-> "go", shown |-> <<>>, exc |-> "none",
                       key |-> keys[at].key, secret |-> keys[at].secret,
                       key_index |-> key_index]

\* lines 213-216 with the new entry inserted at the head of the list
upsert_at_head(ks, s, number) ==
    IF s.key_index = -1
    THEN <<EntryN(s.key, s.secret, number)>> \o ks
    ELSE [ks EXCEPT ![PyIndex(ks, s.key_index)] =
              EntryN(ks[PyIndex(ks, s.key_index)].key,
                     ks[PyIndex(ks, s.key_index)].secret, number)]

\* lines 213-216: the list with the number stored for the selection
upsert(ks, s, number) ==
    LET grown == IF s.key_index = -1 THEN Append(ks, Entry(s.key, s.secret)) ELSE ks
        at == IF s.key_index = -1 THEN Len(ks) + 1 ELSE PyIndex(ks, s.key_index)
    IN  [grown EXCEPT ![at] = EntryN(grown[at].key, grown[at].secret, number)]

\* The end of a handler other than get_message: the fields it leaves behind
Leave(name, k, f, b, p, st, d, c, exc) ==
    /\ keys' = k
    /\ file' = f
    /\ bearer' = b
    /\ phone_number' = p
    /\ status' = st
    /\ dialogs' = d
    /\ calls' = c
    /\ fault' = exc
    /\ cmd' = name
    /\ pc' = AfterSlot(exc)

\* choose_bearer, lines 210-219: response is what line 210 dereferences
store_number(s, b, st, d, c, returned, o) ==
    IF ~returned
    THEN Leave("choose_bearer", keys, file, b, phone_number, st, d, c, "AttributeError")
    ELSE IF "destinationAddress" \notin DOMAIN o.json
    THEN Leave("choose_bearer", keys, file, b, phone_number, st, d, c, "KeyError")
    ELSE /\ s.key_index = -1 => Len(keys) < MaxKeys
         /\ \E io_ok \in BOOLEAN :
              LET number == o.json.destinationAddress
                  ks == upsert(keys, s, number)
                  w == save_keys(ks, file, io_ok)
              IN  Leave("choose_bearer", ks, w.file, b, number, st, d \o w.shown, c, w.raised)

\* choose_bearer, lines 203-209
resolve_number(s, b, st, d, c, o2) ==
    LET r2 == api_request("get_number", o2)
        c2 == Append(c, Call("get_number", <<b>>, o2))
        d2 == d \o r2.shown
    IN  IF r2.raised # "none"
        THEN Leave("choose_bearer", keys, file, b, phone_number, st, d2, c2, r2.raised)
        ELSE IF ~r2.returned \/ ~ok(o2)
        THEN \E o3 \in new_number_outcomes :
               LET r3 == api_request("new_number", o3)
                   c3 == Append(c2, Call("new_number", <<b>>, o3))
                   d3 == d2 \o show_message("No number", TRUE, "Information").shown
                            \o r3.shown
               IN  IF r3.raised # "none"
                   THEN Leave("choose_bearer", keys, file, b, phone_number, st, d3, c3, r3.raised)
                   ELSE store_number(s, b, st, d3, c3, r3.returned, o3)
        ELSE store_number(s, b, st, d2, c2, TRUE, o2)

\* choose_bearer, lines 198-203
request_bearer(s, o1) ==
    LET r1 == api_request("get_bearer", o1)
        c1 == <<Call("get_bearer", <<s.key, s.secret>>, o1)>>
        chk == check_response(r1.returned, o1, HTTP_OK, "choose_bearer", status)
    IN  IF r1.raised # "none"
        THEN Leave("choose_bearer", keys, file, bearer, phone_number, status,
                   r1.shown, c1, r1.raised)
        ELSE IF ~chk.ok
        THEN Leave("choose_bearer", keys, file, bearer, phone_number, chk.status,
                   r1.shown, c1, "none")
        ELSE \E o2 \in get_number_outcomes :
               resolve_number(s, o1.json.access_token,
                              Status("Success! Token valid for one hour"), r1.shown, c1, o2)

\* choose_bearer (lines 172-219), the "Get token" button
choose_bearer ==
    /\ pc = "idle"
    /\ \E answer \in Answers(keys) :
         LET s == select(answer[1], answer[2])
         IN  IF s.exit = "go"
             THEN \E o1 \in get_bearer_outcomes : request_bearer(s, o1)
             ELSE Leave("choose_bearer", keys, file, bearer, phone_number, status,
                        s.shown, <<>>, s.exc)
    /\ message' = NoMessage
    /\ messages_before' = received_messages
    /\ UNCHANGED received_messages

\* send_message, lines 261-266: the Message built from the two text fields
outgoing(number, destination, text) ==
    Message("OUTGOING", number, destination, text, None, None)

\* lines 267-271 without the check of the text
rejection_of_number_only(destination, text) ==
    IF Len(destination) = 0 THEN "Number cannot be blank" ELSE ""

\* send_message, lines 267-271: the status that rejects the input, "" when it passes
rejection(destination, text) ==
    IF Len(destination) = 0 THEN "Number cannot be blank"
    ELSE IF Len(text) = 0 THEN "Message cannot be blank"
    ELSE ""

\* send_message (lines 257-282), the "Send" button
send_message ==
    /\ pc = "idle"
    /\ IF bearer = None
       THEN /\ message' = NoMessage
            /\ Leave("send_message", keys, file, bearer, phone_number,
                     Status("Request bearer first"), <<>>, <<>>, "none")
       ELSE \E destination \in DestTexts, text \in MsgTexts :
              /\ message' = outgoing(phone_number, destination, text)
              /\ IF rejection(destination, text) # ""
                 THEN Leave("send_message", keys, file, bearer, phone_number,
                            Status(rejection(destination, text)), <<>>, <<>>, "none")
                 ELSE \E o \in send_message_outcomes :
                        LET r == api_request("send_message", o)
                            c == <<Call("send_message", <<destination, text>>, o)>>
                            chk == check_response(r.returned, o, HTTP_CREATED, "send_message",
                                                  Status("Sending message to"))
                        IN  IF r.raised # "none"
                            THEN Leave("send_message", keys, file, bearer, phone_number,
                                       Status("Sending message to"), r.shown, c, r.raised)
                            ELSE Leave("send_message", keys, file, bearer, phone_number,
                                       IF chk.ok
                                       THEN Status("Request to send message successful")
                                       ELSE Status("Request to send message failed"),
                                       r.shown, c, "none")
    /\ messages_before' = received_messages
    /\ UNCHANGED received_messages

\* get_message (lines 221-225), the "Receive" button, up to the loop
get_message ==
    /\ pc = "idle"
    /\ cmd' = "get_message"
    /\ IF bearer = None
       THEN /\ status' = Status("Request bearer first")
            /\ pc' = "idle"
       ELSE /\ status' = Status("Fetching messages...")
            /\ pc' = "polling"
    /\ dialogs' = <<>>
    /\ calls' = <<>>
    /\ fault' = "none"
    /\ message' = NoMessage
    /\ messages_before' = received_messages
    /\ UNCHANGED <<file, keys, bearer, phone_number, received_messages>>

\* lines 233-241 with sender and destination exchanged
incoming_swapped(j, number) ==
    Message("INCOMING", number, j.senderAddress, j.message, j.messageId,
            fromisoformat(j.sentTimestamp))

\* get_message, lines 233-241: the Message built from the provider's JSON
incoming(j, number) ==
    Message("INCOMING", j.senderAddress, number, j.message, j.messageId,
            fromisoformat(j.sentTimestamp))

\* line 242 with a message already in the list left out
append_unless_present(msgs, m) ==
    IF \E i \in 1..Len(msgs) : msgs[i] = m THEN msgs ELSE Append(msgs, m)

\* get_message, line 242
append_received(msgs, m) == Append(msgs, m)

\* The provider answers with a queued message
IsInbound(o) == o.kind = "Response" /\ o.status_code = HTTP_OK /\ o.json.status # "EMPTY"

\* get_message (lines 226-255): one iteration of the while loop
get_message_loop ==
    /\ pc = "polling"
    /\ \E o \in get_message_outcomes :
         LET r == api_request("get_message", o)
             chk == check_response(r.returned, o, HTTP_OK, "get_message", status)
         IN  /\ o \notin {OtherException, Response(HTTP_OK, EmptyBody)}
                    => Len(calls) < MaxPolls
             /\ IsInbound(o) => Len(received_messages) < MaxMsgs
             /\ calls' = Append(calls, Call("get_message", <<>>, o))
             /\ dialogs' = dialogs \o r.shown
             /\ fault' = r.raised
             /\ IF r.raised # "none"
                THEN /\ pc' = AfterSlot(r.raised)
                     /\ UNCHANGED <<status, message, received_messages>>
                ELSE IF ~chk.ok
                THEN /\ pc' = "polling"
                     /\ status' = chk.status
                     /\ UNCHANGED <<message, received_messages>>
                ELSE IF o.json.status = "EMPTY"
                THEN /\ pc' = "idle"
                     /\ status' = Status("Fetched all messages")
                     /\ UNCHANGED <<message, received_messages>>
                ELSE LET m == incoming(o.json, phone_number)
                     IN  /\ pc' = "polling"
                         /\ message' = m
                         /\ received_messages' = append_received(received_messages, m)
                         /\ UNCHANGED status
    /\ UNCHANGED <<file, keys, bearer, phone_number, cmd, messages_before>>

Next == Construct \/ choose_bearer \/ send_message \/ get_message \/ get_message_loop

Spec == Init /\ [][Next]_vars

-----------------------------------------------------------------------------
(* Properties *)

Last(seq) == seq[Len(seq)]

\* A call that gave the handler no usable response
Failed(c) == c.kind # "Response" \/ c.status_code >= 400

CallsOf(op) == { i \in 1..Len(calls) : calls[i].op = op }

\* C1: in choose-key, a pair whose key length is not 32 or whose secret length
\* is not 16 never reaches get_bearer, whether it was picked from the stored
\* entries or typed.
C1_LengthsCheckedBeforeBearer ==
    \A i \in CallsOf("get_bearer") :
        Len(calls[i].args[1]) = KEY_LEN /\ Len(calls[i].args[2]) = SECRET_LEN

\* C2: a remote call that times out returns no result and shows the timeout
\* dialog, and the command that issued it leaves the credential list as it was.
C2_TimeoutLeavesKeys ==
    [][ (calls' # calls /\ \E i \in 1..Len(calls') : calls'[i].kind = "Timeout")
          => /\ \E d \in 1..Len(dialogs') : dialogs'[d].title = "Request timed out"
             /\ keys' = keys ]_vars

\* C3: a remote call that fails (timeout, connection failure, exception,
\* unexpected status) never makes an exception leave the handler: the handler
\* ends with a status or dialog and the program goes on taking commands.
C3_RemoteFailureIsNotFatal ==
    (calls # <<>> /\ Failed(Last(calls))) => (fault = "none" /\ pc # "dead")

\* C4: in a choose-key whose get_bearer succeeded, new_number is called exactly
\* when get_number completed and reported that no number is assigned, and then
\* once; never after a get_number that returned a number or that failed.
C4_NewNumberOnlyWhenNoneAssigned ==
    cmd = "choose_bearer" =>
        /\ Cardinality(CallsOf("new_number")) <= 1
        /\ \A i \in CallsOf("new_number") :
               /\ i > 1
               /\ calls[i - 1].op = "get_number"
               /\ calls[i - 1].kind = "Response"
               /\ calls[i - 1].status_code = 404
        /\ \A i \in CallsOf("get_number") :
               (calls[i].kind = "Response" /\ calls[i].status_code = 404)
                   => (i + 1) \in CallsOf("new_number")

\* C10: a poll_message call that times out, fails to connect, raises or returns
\* a status other than 200 appends nothing and is followed by another call: the
\* command ends only on a 200 response carrying the empty marker.
C10_PollEndsOnlyOnEmptyMarker ==
    [][ (pc = "polling" /\ calls' # calls)
          => /\ Failed(Last(calls'))
                  => (pc' = "polling" /\ received_messages' = received_messages)
             /\ pc' # "polling"
                  => (Last(calls').kind = "Response"
                        /\ Last(calls').status_code = HTTP_OK
                        /\ Last(calls').body = EmptyBody) ]_vars

IsOk200(c) == c.kind = "Response" /\ c.status_code = HTTP_OK

IsEmptyMarker(c) == IsOk200(c) /\ c.body = EmptyBody

\* The calls of the log that delivered a queued message
Delivered(log) == SelectSeq(log, LAMBDA c : IsOk200(c) /\ c.body # EmptyBody)

\* C5: a poll appends to the session's list exactly the messages the provider
\* delivered, in arrival order and duplicates included, keeps what the list
\* held before, and stops at the empty marker; when every call succeeded with
\* status 200 it made n + 1 calls for n messages.
C5_PollAppendsInArrivalOrder ==
    cmd = "get_message" =>
        LET got == Delivered(calls)
            n == Len(got)
            old == Len(messages_before)
        IN  /\ Len(received_messages) = old + n
            /\ SubSeq(received_messages, 1, old) = messages_before
            /\ \A i \in 1..n :
                   /\ received_messages[old + i].msg_type = "INCOMING"
                   /\ received_messages[old + i].sender = got[i].body.senderAddress
                   /\ received_messages[old + i].text = got[i].body.message
                   /\ received_messages[old + i].msg_id = got[i].body.messageId
            /\ \A i \in 1..Len(calls) : IsEmptyMarker(calls[i]) => (i = Len(calls) /\ pc = "idle")
            /\ (pc = "idle" /\ calls # <<>>) => IsEmptyMarker(Last(calls))
            /\ (pc = "idle" /\ \A i \in 1..Len(calls) : IsOk200(calls[i]))
                   => Len(calls) = (IF bearer = None THEN 0 ELSE n + 1)

\* Witness of C5: a poll that drained two messages and then the empty marker
C5_Witness ==
    /\ cmd = "get_message"
    /\ pc = "idle"
    /\ Len(calls) = 3
    /\ \A i \in 1..Len(calls) : IsOk200(calls[i])
    /\ Len(received_messages) = 2
    /\ received_messages[1] # received_messages[2]

\* C6 as claimed: every Message a send or poll constructs has the session's
\* number on the side of its direction and a different number on the other.
C6_ExactlyOneSideIsSessionNumber ==
    /\ message.msg_type = "OUTGOING"
          => (message.sender = phone_number /\ message.destination # phone_number)
    /\ message.msg_type = "INCOMING"
          => (message.destination = phone_number /\ message.sender # phone_number)

\* C6 as amended: every Message a send or poll constructs has the session's
\* number, as it is when the Message is built, on the side of its direction
\* (sender when OUTGOING, destination when INCOMING); the other side is what
\* the user typed or the provider reported.
C6_OwnSideIsSessionNumber ==
    /\ message.msg_type = "OUTGOING" => message.sender = phone_number
    /\ message.msg_type = "INCOMING" => message.destination = phone_number

\* Witness of C6: an inbound message was built, with a sender that is not the session's number
C6_Witness ==
    /\ message.msg_type = "INCOMING"
    /\ message.sender # phone_number
    /\ phone_number # None

\* An entry without its number
Pairing(e) == [f \in DOMAIN e \ {"number"} |-> e[f]]

HasPair(ks, key, secret) ==
    \E i \in 1..Len(ks) :
        /\ {"key", "secret"} \subseteq DOMAIN ks[i]
        /\ ks[i].key = key
        /\ ks[i].secret = secret

\* C7 as claimed: once the program runs, an entry is appended only by a
\* choose-key that succeeded with a pair the list did not hold yet.
C7_AppendedOnlyIfUnseen ==
    [][ (pc = "idle" /\ Len(keys') > Len(keys))
          => /\ cmd' = "choose_bearer"
             /\ ~HasPair(keys, Last(keys').key, Last(keys').secret) ]_vars

\* C7 as amended: once the program runs, the list only changes in a choose-key
\* whose get_bearer returned 200 and whose number was resolved; entries are
\* never removed, reordered or given another key or secret, and at most one
\* entry is appended, at the end, holding the pair sent to get_bearer and the
\* session's number, whether or not the list already holds that pair.
C7_AppendedByTypedChoice ==
    [][ pc = "idle"
          => /\ Len(keys') >= Len(keys)
             /\ \A i \in 1..Len(keys) : Pairing(keys'[i]) = Pairing(keys[i])
             /\ keys' # keys
                  => /\ cmd' = "choose_bearer"
                     /\ IsOk200(calls'[1]) /\ calls'[1].op = "get_bearer"
                     /\ ~Failed(Last(calls'))
                     /\ Last(calls').body.destinationAddress = phone_number'
             /\ Len(keys') > Len(keys)
                  => /\ Len(keys') = Len(keys) + 1
                     /\ Last(keys') = EntryN(calls'[1].args[1], calls'[1].args[2],
                                             phone_number') ]_vars

\* Witness of C7: the list holds the same pair twice
C7_Witness ==
    \E i, j \in 1..Len(keys) :
        /\ i < j
        /\ {"key", "secret"} \subseteq DOMAIN keys[i]
        /\ HasPair(<<keys[j]>>, keys[i].key, keys[i].secret)
        /\ cmd = "choose_bearer"

\* C8: after start-up with keys.json missing or malformed the credential list
\* is empty, one dialog was shown (a warning when missing, an error when
\* malformed), no exception was raised and the program takes commands.
C8_LoadFailsSoft ==
    (cmd = "__init__" /\ pc # "boot" /\ file.kind \in {"missing", "malformed"})
        => /\ keys = <<>>
           /\ fault = "none"
           /\ pc = "idle"
           /\ Len(dialogs) = 1
           /\ dialogs[1].icon = (IF file.kind = "missing" THEN "Warning" ELSE "Critical")

\* Witness of C8: start-up over a malformed keys.json is done
C8_Witness == cmd = "__init__" /\ pc = "idle" /\ file.kind = "malformed"

====
